---- MODULE Spec2Model ----
(***************************************************************************)
(* Model of the resumable downloader of src/download_medicaid_data.py:     *)
(* get_file_size and download_file, stepped at the points where the        *)
(* destination file, the HTTP exchange or the control flow can be observed *)
(* (the metadata probe, the already-complete check, the body request, the  *)
(* open of the destination, each chunk written, the return or the raise).  *)
(* The environment is the HTTP server and network, the local filesystem    *)
(* and the operating system that may terminate the process.                *)
(***************************************************************************)
EXTENDS Integers, Sequences, FiniteSets, TLC

\* ------------------------------------------------------------------ bounds
\* Longest remote content; a destination file may be one byte longer.
MaxLen == 3
\* Largest chunk_size passed to download_file.
MaxChunk == 2
\* Most calls of calculate_sha256 followed in one behaviour.
MaxDigests == 2
\* Most times a caller calls download_file again after a failed call.
MaxRetries == 2
\* Longest remote content of a file that main fetches.
MainLen == 1

\* The byte alphabet (two values are enough to tell contents apart).
Bytes == {0, 1}

\* ----------------------------------------------------------------- helpers
Min(a, b) == IF a < b THEN a ELSE b

Take(s, n) == SubSeq(s, 1, Min(n, Len(s)))

Drop(s, n) == SubSeq(s, Min(n, Len(s)) + 1, Len(s))

IsPrefix(p, s) == Len(p) <= Len(s) /\ SubSeq(s, 1, Len(p)) = p

SeqsUpTo(n) == UNION {[1..m -> Bytes] : m \in 0..n}

\* ------------------------------------------------------------------- state
VARIABLES
    remote,           \* the remote resource's content (does not change)
    chunk_size,       \* download_file's chunk_size argument
    exists,           \* dest_path.exists()
    file,             \* the destination file's content on disk
    exists0,          \* exists, as it was when download_file was called
    file0,            \* file, as it was when download_file was called
    pc,               \* position in download_file
    alive,            \* FALSE once the process has been terminated
    downloaded_size,  \* local variable downloaded_size
    total_size,       \* local variable total_size (-1: not yet assigned)
    range_hdr,        \* offset of headers['Range'] (-1: no Range header)
    mode,             \* local variable mode: "ab" or "wb"
    status_code,      \* response.status_code (0: no response)
    body,             \* bytes of the response body not yet yielded
    handle,           \* the handle f of the destination: "none", "open", "closed"
    open_mode,        \* the mode the destination was opened in ("none" before)
    pbar,             \* cumulative count of the progress bar
    written,          \* the bytes passed to f.write so far in this call
    cut,              \* TRUE when the body stream ended before its last byte
    outcome,          \* how the call ended: "none", "AlreadyComplete",
                      \* "Completed", "Failed" (return False), "Raised"
    head_reqs,        \* number of HEAD requests sent
    get_reqs,         \* number of GET requests sent
    opens,            \* number of times the destination was opened
    h_pc,             \* position in calculate_sha256: "idle", "reading"
    h_chunk,          \* calculate_sha256's chunk_size argument (0 when idle)
    h_pos,            \* read position of its file handle
    h_acc,            \* state of sha256_hash, the streaming accumulator
    digests,          \* what the calls of calculate_sha256 returned, in
                      \* order, each with the chunk_size it was called with
    retries,          \* number of times download_file was called again on
                      \* the same destination after a call that failed
    m_pc,             \* position in main ("off": main is not running)
    args,             \* main's parsed arguments: list, all, format, verify
    queue,            \* the formats of formats_to_download not yet done
    log,              \* what main did, in order: <<"fetch", fmt>> when it
                      \* calls download_file, <<"ok", fmt>>, <<"failed", fmt>>
                      \* or <<"raised", fmt>> when that call ends,
                      \* <<"sha", fmt>> when it calls calculate_sha256
    exit_status       \* the process's exit status (-1 while it runs)

\* The state of the callers of download_file.
mainVars == <<m_pc, args, queue, log, exit_status>>

callerVars == <<h_pc, h_chunk, h_pos, h_acc, digests, retries, mainVars>>

\* The state of download_file and of its environment.
dlVars == <<remote, chunk_size, exists, file, exists0, file0, pc, alive,
            downloaded_size, total_size, range_hdr, mode, status_code, body,
            handle, open_mode, pbar, written, cut, outcome, head_reqs,
            get_reqs, opens>>

vars == <<remote, chunk_size, exists, file, exists0, file0, pc, alive,
          downloaded_size, total_size, range_hdr, mode, status_code, body,
          handle, open_mode, pbar, written, cut, outcome, head_reqs,
          get_reqs, opens, callerVars>>

envVars == <<remote, chunk_size, exists0, file0, alive, callerVars>>

\* No caller-side activity: calculate_sha256 is not running and has not run.
CallerIdle ==
    /\ h_pc = "idle"
    /\ h_chunk = 0
    /\ h_pos = 0
    /\ h_acc = 0
    /\ digests = <<>>
    /\ retries = 0
    /\ m_pc = "off"
    /\ args = [list |-> FALSE, all |-> FALSE, format |-> "parquet",
               verify |-> FALSE]
    /\ queue = <<>>
    /\ log = <<>>
    /\ exit_status = -1

Init ==
    /\ remote \in SeqsUpTo(MaxLen)
    /\ chunk_size \in 1..MaxChunk
    /\ exists \in BOOLEAN
    /\ file \in (IF exists THEN SeqsUpTo(MaxLen + 1) ELSE {<<>>})
    /\ exists0 = exists
    /\ file0 = file
    /\ pc = "probe"
    /\ alive = TRUE
    /\ downloaded_size = 0
    /\ total_size = -1
    /\ range_hdr = -1
    /\ mode = "none"
    /\ status_code = 0
    /\ body = <<>>
    /\ handle = "none"
    /\ open_mode = "none"
    /\ pbar = 0
    /\ written = <<>>
    /\ cut = FALSE
    /\ outcome = "none"
    /\ head_reqs = 0
    /\ get_reqs = 0
    /\ opens = 0
    /\ CallerIdle

\* --------------------------------------------------------- the HTTP server
\* Statuses a GET may be answered with: full content, partial content, a
\* status below 400 that is neither (304 stands for them), client and server
\* errors.
Statuses == {200, 206, 304, 404, 416, 500}

\* response.raise_for_status(): raises HTTPError for 4xx and 5xx only.
RaisesForStatus(st) == st >= 400 /\ st < 600

\* What the server may answer to a GET carrying the Range offset rng
\* (-1: none). 206 and 416 answer range requests only: 206 when the offset
\* lies inside the content, 416 when it does not. 200 is the answer to a
\* plain request and of a server that ignores Range.
ServerAnswers(st, rng) ==
    CASE st = 206 -> rng >= 0 /\ rng < Len(remote)
      [] st = 416 -> rng >= Len(remote) /\ rng >= 0
      [] OTHER    -> TRUE

\* The entity the answer carries: the requested suffix on 206, the whole
\* content on 200, nothing that download_file could store on the others.
ResponseBody(st, rng) ==
    CASE st = 206 -> Drop(remote, rng)
      [] st = 200 -> remote
      [] OTHER    -> <<>>

\* ----------------------------------------------------------- download_file
\* Line 77, with a plausible slip: "==" where the code has ">=".
AlreadyDownloadedEq(ds, ts) == ds = ts /\ ts > 0

\* Line 77, with a plausible slip: the "total_size > 0" conjunct forgotten.
AlreadyDownloadedNoGuard(ds, ts) == ds >= ts

\* Line 77: the already-complete test.
AlreadyDownloaded(ds, ts) == ds >= ts /\ ts > 0

\* Lines 82-84: the Range offset sent (-1: headers stays empty).
RangeOffset(ds) == IF ds > 0 THEN ds ELSE -1

\* Line 88, with a plausible slip: always 'wb'.
InitialModeWb(ds) == "wb"

\* Line 88: mode = 'ab' if downloaded_size > 0 else 'wb'.
InitialMode(ds) == IF ds > 0 THEN "ab" ELSE "wb"

\* Lines 95-100, with a plausible slip: mode not reset when the answer is
\* not 206.
ModeAfterResponseKept(st, m) == m

\* Lines 95-100: the mode after the status was looked at.
ModeAfterResponse(st, m) == IF st = 206 THEN m ELSE "wb"

\* Lines 95-99: downloaded_size after the status was looked at.
OffsetAfterResponse(st, ds) == IF st = 206 THEN ds ELSE 0

\* Line 102, with a plausible slip: a mode that never truncates.
ContentAfterOpenKept(m, f) == f

\* Line 102: open(dest_path, mode) truncates in 'wb' and keeps in 'ab'.
ContentAfterOpen(m, f) == IF m = "wb" THEN <<>> ELSE f

\* Line 111: the next chunk iter_content(chunk_size) yields.
NextChunk == Take(body, chunk_size)

\* Lines 70-75, HEAD answered: downloaded_size is the destination's length
\* (0 when absent), total_size the content-length header, 0 when the answer
\* carries none.
ProbeOk ==
    /\ pc = "probe" /\ alive
    /\ downloaded_size' = (IF exists THEN Len(file) ELSE 0)
    /\ \E cl \in {Len(remote), 0} : total_size' = cl
    /\ head_reqs' = head_reqs + 1
    /\ pc' = "check"
    /\ UNCHANGED <<envVars, exists, file, range_hdr, mode, status_code, body,
                   handle, open_mode, pbar, written, cut, outcome, get_reqs,
                   opens>>

\* Lines 70-75, requests.head raises (connection error, timeout): the call
\* is outside the try block of line 90, so the exception leaves
\* download_file.
ProbeRaises ==
    /\ pc = "probe" /\ alive
    /\ downloaded_size' = (IF exists THEN Len(file) ELSE 0)
    /\ head_reqs' = head_reqs + 1
    /\ pc' = "raised"
    /\ outcome' = "Raised"
    /\ UNCHANGED <<envVars, exists, file, total_size, range_hdr, mode,
                   status_code, body, handle, open_mode, pbar, written, cut,
                   get_reqs, opens>>

\* Lines 77-88: return True when already complete, else set up the Range
\* header and the open mode.
CheckComplete ==
    /\ pc = "check" /\ alive
    /\ IF AlreadyDownloaded(downloaded_size, total_size)
         THEN /\ pc' = "returned"
              /\ outcome' = "AlreadyComplete"
              /\ UNCHANGED <<range_hdr, mode>>
         ELSE /\ pc' = "request"
              /\ range_hdr' = RangeOffset(downloaded_size)
              /\ mode' = InitialMode(downloaded_size)
              /\ UNCHANGED outcome
    /\ UNCHANGED <<envVars, exists, file, downloaded_size, total_size,
                   status_code, body, handle, open_mode, pbar, written, cut,
                   head_reqs, get_reqs, opens>>

\* Lines 91, 119-121 with a plausible slip: the handler tries the request
\* again instead of returning.
GetNetworkErrorRetries ==
    /\ pc = "request" /\ alive
    /\ get_reqs <= 2
    /\ get_reqs' = get_reqs + 1
    /\ UNCHANGED <<envVars, exists, file, pc, downloaded_size, total_size,
                   range_hdr, mode, status_code, body, handle, open_mode,
                   pbar, written, cut, outcome, head_reqs, opens>>

\* Lines 91, 119-121: requests.get raises a RequestException (connection
\* error, timeout); download_file returns False.
GetNetworkError ==
    /\ pc = "request" /\ alive
    /\ get_reqs' = get_reqs + 1
    /\ pc' = "returned"
    /\ outcome' = "Failed"
    /\ UNCHANGED <<envVars, exists, file, downloaded_size, total_size,
                   range_hdr, mode, status_code, body, handle, open_mode,
                   pbar, written, cut, head_reqs, opens>>

\* Lines 91-100, 119-121: the server answers. raise_for_status turns a 4xx
\* or 5xx into an HTTPError (a RequestException) and download_file returns
\* False; otherwise 206 keeps the resume offset and every other status
\* resets it to 0 and the mode to 'wb'.
GetResponse ==
    /\ pc = "request" /\ alive
    /\ get_reqs' = get_reqs + 1
    /\ \E st \in Statuses :
         /\ ServerAnswers(st, range_hdr)
         /\ status_code' = st
         /\ IF RaisesForStatus(st)
              THEN /\ pc' = "returned"
                   /\ outcome' = "Failed"
                   /\ UNCHANGED <<downloaded_size, mode, body>>
              ELSE /\ pc' = "open"
                   /\ body' = ResponseBody(st, range_hdr)
                   /\ downloaded_size' = OffsetAfterResponse(st, downloaded_size)
                   /\ mode' = ModeAfterResponse(st, mode)
                   /\ UNCHANGED outcome
    /\ UNCHANGED <<envVars, exists, file, total_size, range_hdr, handle,
                   open_mode, pbar, written, cut, head_reqs, opens>>

\* Lines 102-110: open(dest_path, mode) succeeds; the progress bar starts
\* at downloaded_size.
OpenOk ==
    /\ pc = "open" /\ alive
    /\ exists' = TRUE
    /\ file' = ContentAfterOpen(mode, file)
    /\ handle' = "open"
    /\ open_mode' = mode
    /\ opens' = opens + 1
    /\ pbar' = downloaded_size
    /\ pc' = "stream"
    /\ UNCHANGED <<envVars, downloaded_size, total_size, range_hdr, mode,
                   status_code, body, written, cut, outcome, head_reqs,
                   get_reqs>>

\* Line 102: open raises OSError (permission denied, no such directory).
\* OSError is no RequestException: it leaves download_file.
OpenFails ==
    /\ pc = "open" /\ alive
    /\ pc' = "raised"
    /\ outcome' = "Raised"
    /\ UNCHANGED <<envVars, exists, file, downloaded_size, total_size,
                   range_hdr, mode, status_code, body, handle, open_mode,
                   pbar, written, cut, head_reqs, get_reqs, opens>>

\* Lines 111-114 with a plausible slip: pbar.update(chunk_size) where the
\* code has pbar.update(len(chunk)).
WriteChunkCountsChunkSize ==
    /\ pc = "stream" /\ alive
    /\ body # <<>>
    /\ file' = file \o NextChunk
    /\ written' = written \o NextChunk
    /\ pbar' = pbar + chunk_size
    /\ body' = Drop(body, chunk_size)
    /\ UNCHANGED <<envVars, exists, pc, downloaded_size, total_size,
                   range_hdr, mode, status_code, handle, open_mode, cut,
                   outcome, head_reqs, get_reqs, opens>>

\* Lines 111-114: one chunk is yielded, written and counted.
WriteChunk ==
    /\ pc = "stream" /\ alive
    /\ body # <<>>
    /\ file' = file \o NextChunk
    /\ written' = written \o NextChunk
    /\ pbar' = pbar + Len(NextChunk)
    /\ body' = Drop(body, chunk_size)
    /\ UNCHANGED <<envVars, exists, pc, downloaded_size, total_size,
                   range_hdr, mode, status_code, handle, open_mode, cut,
                   outcome, head_reqs, get_reqs, opens>>

\* Line 113 with a plausible slip: f opened without a with block, so an
\* exception leaves it open.
WriteFailsLeaksHandle ==
    /\ pc = "stream" /\ alive
    /\ body # <<>>
    /\ \E n \in 0..(Len(NextChunk) - 1) : file' = file \o Take(NextChunk, n)
    /\ pc' = "raised"
    /\ outcome' = "Raised"
    /\ UNCHANGED <<envVars, exists, downloaded_size, total_size, range_hdr,
                   mode, status_code, body, handle, open_mode, pbar, written,
                   cut, head_reqs, get_reqs, opens>>

\* Line 113: f.write raises OSError (disk full) after storing n bytes of
\* the chunk, n short of the whole; the with block closes f and the
\* exception leaves download_file.
WriteFails ==
    /\ pc = "stream" /\ alive
    /\ body # <<>>
    /\ \E n \in 0..(Len(NextChunk) - 1) : file' = file \o Take(NextChunk, n)
    /\ handle' = "closed"
    /\ pc' = "raised"
    /\ outcome' = "Raised"
    /\ UNCHANGED <<envVars, exists, downloaded_size, total_size, range_hdr,
                   mode, status_code, body, open_mode, pbar, written, cut,
                   head_reqs, get_reqs, opens>>

\* Lines 111, 119-121 with a plausible slip: the handler removes the partial
\* file.
StreamErrorUnlinks ==
    /\ pc = "stream" /\ alive
    /\ body # <<>>
    /\ exists' = FALSE
    /\ file' = <<>>
    /\ handle' = "closed"
    /\ pc' = "returned"
    /\ outcome' = "Failed"
    /\ UNCHANGED <<envVars, downloaded_size, total_size, range_hdr, mode,
                   status_code, body, open_mode, pbar, written, cut,
                   head_reqs, get_reqs, opens>>

\* Lines 111, 119-121: iter_content raises a RequestException while bytes
\* are still due; the with block closes f, download_file returns False.
StreamError ==
    /\ pc = "stream" /\ alive
    /\ body # <<>>
    /\ handle' = "closed"
    /\ pc' = "returned"
    /\ outcome' = "Failed"
    /\ UNCHANGED <<envVars, exists, file, downloaded_size, total_size,
                   range_hdr, mode, status_code, body, open_mode, pbar,
                   written, cut, head_reqs, get_reqs, opens>>

\* Lines 111-117: the body is exhausted; f is closed, download_file returns
\* True.
Complete ==
    /\ pc = "stream" /\ alive
    /\ body = <<>>
    /\ handle' = "closed"
    /\ pc' = "returned"
    /\ outcome' = "Completed"
    /\ UNCHANGED <<envVars, exists, file, downloaded_size, total_size,
                   range_hdr, mode, status_code, body, open_mode, pbar,
                   written, cut, head_reqs, get_reqs, opens>>

\* Lines 111-117: the stream ends while bytes are still due and
\* iter_content raises nothing (the connection closed early and the
\* transport does not enforce Content-Length, or the server sent less than
\* it announced). The loop ends like any other: no length is compared, f is
\* closed, download_file returns True.
PrematureEof ==
    /\ pc = "stream" /\ alive
    /\ body # <<>>
    /\ body' = <<>>
    /\ cut' = TRUE
    /\ handle' = "closed"
    /\ pc' = "returned"
    /\ outcome' = "Completed"
    /\ UNCHANGED <<envVars, exists, file, downloaded_size, total_size,
                   range_hdr, mode, status_code, open_mode, pbar, written,
                   head_reqs, get_reqs, opens>>

\* The process is terminated inside download_file. The operating system
\* closes f; of the bytes written in this call, those still in f's buffer
\* (any suffix of them) never reach the disk.
Kill ==
    /\ alive
    /\ pc \notin {"returned", "raised"}
    /\ alive' = FALSE
    /\ IF handle = "open"
         THEN /\ \E n \in 0..Len(written) : file' = Take(file, Len(file) - n)
              /\ handle' = "closed"
         ELSE UNCHANGED <<file, handle>>
    /\ UNCHANGED <<remote, chunk_size, exists0, file0, exists, pc,
                   downloaded_size, total_size, range_hdr, mode, status_code,
                   body, open_mode, pbar, written, cut, outcome, head_reqs,
                   get_reqs, opens, callerVars>>

Next ==
    \/ ProbeOk
    \/ ProbeRaises
    \/ CheckComplete
    \/ GetNetworkError
    \/ GetResponse
    \/ OpenOk
    \/ OpenFails
    \/ WriteChunk
    \/ WriteFails
    \/ StreamError
    \/ Complete
    \/ PrematureEof
    \/ Kill

Spec == Init /\ [][Next]_vars

\* ------------------------------------------------------------ vocabulary
\* The call has returned (True or False) or raised, and was not terminated.
Returned == pc = "returned"

\* The destination as the call found it, read as a byte sequence.
Before == IF exists0 THEN file0 ELSE <<>>

\* The HEAD request was answered and the already-complete check was made.
Decided == pc \notin {"probe", "check"} /\ total_size >= 0

TypeOK ==
    /\ pc \in {"idle", "probe", "check", "request", "open", "stream",
              "returned", "raised"}
    /\ outcome \in {"none", "AlreadyComplete", "Completed", "Failed", "Raised"}
    /\ mode \in {"none", "ab", "wb"}
    /\ handle \in {"none", "open", "closed"}
    /\ Len(file) <= 2 * MaxLen + 1
    /\ (~exists => file = <<>>)
\* The destination held k bytes, 0 < k < total_size, when the call began.
Partial == exists0 /\ Len(file0) > 0 /\ total_size > 0 /\ Len(file0) < total_size

\* The base the chunks of this call are appended to: what open left.
OpenedOn == IF open_mode = "ab" THEN Before ELSE <<>>

\* ------------------------------------------------------------------ claims

C3_FailureKeepsPartialFile ==
    /\ (pc = "stream" /\ alive) => (exists /\ file = OpenedOn \o written)
    /\ (outcome = "Failed" /\ opens > 0) =>
          /\ pc = "returned"
          /\ exists
          /\ handle = "closed"
          /\ file = OpenedOn \o written
          /\ Len(file) >= Len(written)
    /\ (outcome = "Failed" /\ opens = 0) => (exists = exists0 /\ file = file0)

\* C3's case: the stream failed after at least one chunk was written and
\* with bytes still due.
C3_Witness ==
    /\ outcome = "Failed" /\ opens = 1
    /\ Len(written) > 0
    /\ body # <<>>

\* C4: once the size probe has answered, download_file returns
\* AlreadyComplete exactly when the destination existed with length >=
\* total_size and total_size > 0, and then no body request was sent and the
\* destination is unchanged; in every other case (total_size = 0 with a
\* non-empty destination included) it goes on to the body request.
C4_AlreadyCompleteExactly ==
    /\ outcome = "AlreadyComplete" =>
          /\ exists0 /\ Len(file0) >= total_size /\ total_size > 0
          /\ get_reqs = 0 /\ opens = 0
          /\ exists = exists0 /\ file = file0
    /\ (Decided /\ exists0 /\ Len(file0) >= total_size /\ total_size > 0) =>
          outcome = "AlreadyComplete"
    /\ (Decided /\ ~(exists0 /\ Len(file0) >= total_size /\ total_size > 0)) =>
          /\ outcome # "AlreadyComplete"
          /\ (pc = "request" /\ get_reqs = 0) \/ get_reqs = 1

\* C4's case: the destination was at least as long as a known total size and
\* the call returned without a body request.
C4_Witness ==
    /\ outcome = "AlreadyComplete"
    /\ Len(file0) > total_size

\* C5 (as claimed, read where it is most favourable: total_size is known
\* and the server answers 200): for a destination that did not exist, the
\* body request carries no Range header, exactly total_size bytes are
\* written and on successful return the file is total_size bytes long.
C5_FreshDownloadHasTotalSize ==
    (~exists0 /\ total_size > 0 /\ status_code = 200 /\ outcome = "Completed") =>
        /\ range_hdr = -1
        /\ Len(written) = total_size
        /\ Len(file) = total_size

\* C6 (as claimed): whenever a transfer is reported completed and total_size
\* is known, the destination holds exactly total_size bytes.
C6_CompletedHasTotalSize ==
    (outcome = "Completed" /\ total_size > 0) => Len(file) = total_size

\* C7 (as claimed): no error leaves download_file as an exception.
C7_NoExceptionEscapes == outcome # "Raised"

\* C8 (as claimed): a body request answered with a status other than 200 or
\* 206 makes download_file return False and leaves the destination as it
\* was: not opened, truncated, appended to or deleted.
C8_OtherStatusFailsUntouched ==
    (get_reqs = 1 /\ status_code \notin {0, 200, 206}) =>
        /\ opens = 0
        /\ exists = exists0 /\ file = file0
        /\ (pc = "returned" => outcome = "Failed")

\* C9: if the destination was absent or held a prefix of the remote content
\* when the call began, it holds a prefix of the remote content in every
\* state of the call: after each chunk, after the truncation of the 200
\* fallback, after a failure, a raise or a termination of the process.
C9_AlwaysPrefixOfRemote ==
    IsPrefix(Before, remote) => IsPrefix(file, remote)

\* C9's case: a resumed transfer fell back to a full overwrite and the
\* process was terminated after a chunk was written.
C9_Witness ==
    /\ IsPrefix(Before, remote)
    /\ range_hdr > 0 /\ status_code = 200
    /\ ~alive
    /\ Len(written) > 0
    /\ Len(file) < Len(remote)

\* C10 (as claimed): in every state in which total_size is known and
\* nonzero, downloaded_size <= total_size.
C10_OffsetWithinTotalAlways ==
    total_size > 0 => downloaded_size <= total_size

\* C10 (amended): in every state past the already-complete check of a call
\* that did not return there, downloaded_size <= total_size when total_size
\* is known and nonzero.
C10_OffsetWithinTotalInTransfer ==
    (Decided /\ outcome # "AlreadyComplete" /\ total_size > 0) =>
        downloaded_size <= total_size

\* C10's case: a resumed transfer is streaming with a nonzero offset and a
\* known total size.
C10_Witness ==
    /\ pc = "stream"
    /\ total_size > 0
    /\ downloaded_size > 0
\* C11: download_file does not retry. In one invocation at most one HEAD and
\* at most one GET request are sent, the GET only after the HEAD; a call
\* that returned False sent exactly one of each and is over, a call that
\* raised is over, and no step of the call sends a request once an outcome
\* is set.
C11_NoRetries ==
    /\ [](/\ head_reqs <= 1
          /\ get_reqs <= 1
          /\ get_reqs <= head_reqs
          /\ (outcome = "Failed" =>
                 pc = "returned" /\ head_reqs = 1 /\ get_reqs = 1)
          /\ (outcome = "Raised" => pc = "raised"))
    /\ [][outcome # "none" =>
             (head_reqs' = head_reqs /\ get_reqs' = get_reqs)]_vars

\* C11's case: the one body request failed at the network layer and the
\* call returned False.
C11_Witness ==
    /\ outcome = "Failed"
    /\ status_code = 0
    /\ head_reqs = 1 /\ get_reqs = 1

\* C12: the destination is opened at most once per invocation, in append or
\* in write mode, the handle is open only while chunks are streamed, and it
\* is closed when download_file has returned or raised (after success,
\* after a network error during streaming, after a write error) and when
\* the process was terminated.
C12_HandleClosedOnExit ==
    /\ opens <= 1
    /\ (opens = 1 <=> handle # "none")
    /\ (opens = 1 => open_mode \in {"ab", "wb"})
    /\ (handle = "open" => (pc = "stream" /\ alive))
    /\ ((pc \in {"returned", "raised"} \/ ~alive) => handle # "open")
    /\ ((pc \in {"returned", "raised"} /\ opens = 1) => handle = "closed")

\* C12's case: a write error made download_file raise after the destination
\* was opened.
C12_Witness ==
    /\ pc = "raised"
    /\ opens = 1
    /\ handle = "closed"

\* C13: the cumulative count reported as progress starts at the resume
\* offset when the answer was 206 and at 0 otherwise, is that start plus the
\* number of bytes written after every chunk, grows by the length of the
\* chunk in the step that writes it, and never decreases.
C13_ProgressMonotone ==
    /\ []((opens = 1) =>
            /\ pbar = downloaded_size + Len(written)
            /\ downloaded_size = (IF status_code = 206 THEN range_hdr ELSE 0)
            /\ (status_code = 206 => downloaded_size = Len(Before)))
    /\ [][/\ pbar' >= pbar
          /\ (written' # written =>
                /\ Len(written') > Len(written)
                /\ pbar' - pbar = Len(written') - Len(written))
          /\ (written' = written /\ opens' = opens => pbar' = pbar)]_vars

\* C13's case: a resumed transfer (206) has written a chunk shorter than
\* chunk_size and the count stands above the resume offset.
C13_Witness ==
    /\ status_code = 206
    /\ pbar > downloaded_size
    /\ downloaded_size > 0
    /\ Len(written) % chunk_size # 0
\* -------------------------------------------------------- calculate_sha256
\* The accumulator sha256_hash takes one of 16 * 16 values (two hexadecimal
\* digits stand for the 64 of SHA-256).
HashSpace == 16 * 16

\* Line 126: hashlib.sha256(), the accumulator before any byte was fed.
HashInit == 7

\* Line 136: sha256_hash.update(chunk) absorbs the bytes of chunk one after
\* the other, each changing the accumulator.
RECURSIVE HashUpdate(_, _)
HashUpdate(h, chunk) ==
    IF chunk = <<>>
      THEN h
      ELSE HashUpdate((31 * h + Head(chunk) + 1) % HashSpace, Tail(chunk))

HexDigits ==
    <<"0", "1", "2", "3", "4", "5", "6", "7",
      "8", "9", "a", "b", "c", "d", "e", "f">>

\* Line 138: sha256_hash.hexdigest(), the accumulator as lowercase
\* hexadecimal digits, most significant first.
HexDigest(h) == <<HexDigits[(h \div 16) + 1], HexDigits[(h % 16) + 1]>>

\* Line 135: what f.read(chunk_size) returns at the current position: up to
\* chunk_size bytes, none at the end of the file.
ReadChunk == SubSeq(file, h_pos + 1, Min(h_pos + h_chunk, Len(file)))

\* Lines 126-134: calculate_sha256 is called on the existing file with some
\* chunk_size; the file is opened for reading.
HashOpen ==
    /\ h_pc = "idle"
    /\ exists
    /\ Len(digests) < MaxDigests
    /\ \E cs \in 1..MaxChunk : h_chunk' = cs
    /\ h_pos' = 0
    /\ h_acc' = HashInit
    /\ h_pc' = "reading"
    /\ UNCHANGED <<dlVars, digests, retries, mainVars>>

\* Lines 135-137 with a plausible slip: a chunk shorter than chunk_size is
\* taken for the end of the file and not fed to the accumulator.
HashReadDropsShortChunk ==
    /\ h_pc = "reading"
    /\ ReadChunk # <<>>
    /\ h_acc' = (IF Len(ReadChunk) = h_chunk
                   THEN HashUpdate(h_acc, ReadChunk)
                   ELSE h_acc)
    /\ h_pos' = h_pos + Len(ReadChunk)
    /\ UNCHANGED <<dlVars, h_pc, h_chunk, digests, retries, mainVars>>

\* Lines 135-137: one chunk is read and fed to the accumulator.
HashRead ==
    /\ h_pc = "reading"
    /\ ReadChunk # <<>>
    /\ h_acc' = HashUpdate(h_acc, ReadChunk)
    /\ h_pos' = h_pos + Len(ReadChunk)
    /\ UNCHANGED <<dlVars, h_pc, h_chunk, digests, retries, mainVars>>

\* Lines 135, 138: f.read returns b"", the iteration ends, the file is
\* closed and the hexadecimal digest is returned.
HashFinish ==
    /\ h_pc = "reading"
    /\ ReadChunk = <<>>
    /\ digests' = Append(digests, [hex |-> HexDigest(h_acc), chunk_size |-> h_chunk])
    /\ h_pc' = "idle"
    /\ h_chunk' = 0
    /\ h_pos' = 0
    /\ h_acc' = 0
    /\ UNCHANGED <<dlVars, retries, mainVars>>

\* calculate_sha256 called up to MaxDigests times on a file nothing else
\* touches.
InitDigest ==
    /\ Init
    /\ exists
    /\ remote = <<>>
    /\ chunk_size = 1

NextDigest ==
    \/ HashOpen
    \/ HashRead
    \/ HashFinish

SpecDigest == InitDigest /\ [][NextDigest]_vars

\* hashlib.sha256(data).hexdigest(): the digest of a byte sequence fed in
\* one piece.
DigestOf(data) == HexDigest(HashUpdate(HashInit, data))

\* C14: calculate_sha256 never changes the file, and every call on the
\* unmodified file returns the digest of the file's byte sequence, whatever
\* chunk_size it read with: any two calls return identical strings, and a
\* zero-byte file gives the digest of the empty byte sequence.
C14_DigestDeterministicReadOnly ==
    /\ exists /\ file = file0
    /\ \A i \in DOMAIN digests :
          /\ digests[i].hex = DigestOf(file)
          /\ (file = <<>> => digests[i].hex = HexDigest(HashInit))
          /\ \A j \in DOMAIN digests : digests[i].hex = digests[j].hex

\* C14's case: two calls with different chunk sizes have returned, on a
\* file whose length is a multiple of neither.
C14_Witness ==
    /\ Len(digests) >= 2
    /\ digests[1].chunk_size # digests[2].chunk_size
    /\ Len(file) % 2 = 1
    /\ Len(file) > MaxChunk
\* ------------------------------------------------- a caller that re-invokes
\* Lines 57-70: the locals of download_file as a fresh call finds them.
FreshCall ==
    /\ pc' = "probe"
    /\ downloaded_size' = 0
    /\ total_size' = -1
    /\ range_hdr' = -1
    /\ mode' = "none"
    /\ status_code' = 0
    /\ body' = <<>>
    /\ handle' = "none"
    /\ open_mode' = "none"
    /\ pbar' = 0
    /\ written' = <<>>
    /\ cut' = FALSE
    /\ outcome' = "none"
    /\ head_reqs' = 0
    /\ get_reqs' = 0
    /\ opens' = 0

\* The caller got False and calls download_file again with the same url and
\* dest_path: the new call finds the destination as the last one left it.
Reinvoke ==
    /\ alive
    /\ pc = "returned" /\ outcome = "Failed"
    /\ retries < MaxRetries
    /\ retries' = retries + 1
    /\ exists0' = exists
    /\ file0' = file
    /\ FreshCall
    /\ UNCHANGED <<remote, chunk_size, exists, file, alive, h_pc, h_chunk,
                   h_pos, h_acc, digests, mainVars>>

\* A server that honours range requests: a request with a Range header is
\* answered 206 (or 416 when the offset is past the end), one without is
\* answered 200, unless an error status (4xx, 5xx) is returned.
HonoursRange ==
    \/ status_code = 0
    \/ RaisesForStatus(status_code)
    \/ (range_hdr >= 0 /\ status_code = 206)
    \/ (range_hdr < 0 /\ status_code = 200)

\* The destination is absent or holds a prefix of the remote content.
InitRetry ==
    /\ Init
    /\ IsPrefix(file, remote)

\* The steps of download_file against such a server, whose bodies arrive in
\* full unless the network fails, and the caller's re-invocations.
NextRetry ==
    \/ ProbeOk
    \/ ProbeRaises
    \/ CheckComplete
    \/ GetNetworkError
    \/ (GetResponse /\ HonoursRange')
    \/ OpenOk
    \/ OpenFails
    \/ WriteChunk
    \/ WriteFails
    \/ StreamError
    \/ Complete
    \/ Reinvoke

SpecRetry == InitRetry /\ [][NextRetry]_vars

\* The call returned True.
Succeeded == outcome \in {"Completed", "AlreadyComplete"}

\* C15 (as claimed): with a caller that re-invokes after every Failed
\* outcome, the destination is never shorter than the invocation found it,
\* an invocation that returns success leaves the full remote content, and
\* every invocation that ends without success ends in a Failed outcome, so
\* that the caller goes on until an invocation succeeds.
C15_RetriesEndInFullContent ==
    /\ Len(file) >= Len(Before)
    /\ (Succeeded => file = remote)
    /\ (pc \in {"returned", "raised"} => (Succeeded \/ outcome = "Failed"))

\* What holds of the retrying caller whatever way an invocation ends: the
\* destination never shrinks, stays a prefix of the remote content, and is
\* the full content after an invocation that returned success.
RetryKeepsProgress ==
    /\ Len(file) >= Len(Before)
    /\ IsPrefix(file, remote)
    /\ (Succeeded => file = remote)
\* --------------------------------------------------------------------- main
\* Lines 32-48: the keys of FILES, in the order the dictionary lists them.
Formats == <<"parquet", "zip", "csv">>

\* Line 57: the chunk_size main's calls use (the default), the largest the
\* model follows.
DefaultChunk == MaxChunk

\* Line 209: formats_to_download.
Selected(a) == IF a.all THEN Formats ELSE <<a.format>>

hashVars == <<h_pc, h_chunk, h_pos, h_acc, digests, retries>>

\* Lines 199-209: the arguments are parsed; with --list the formats are
\* printed and main returns, otherwise the formats to download are fixed.
MainStart ==
    /\ m_pc = "start"
    /\ IF args.list
         THEN /\ m_pc' = "exited"
              /\ exit_status' = 0
              /\ UNCHANGED queue
         ELSE /\ m_pc' = "loop"
              /\ queue' = Selected(args)
              /\ UNCHANGED exit_status
    /\ UNCHANGED <<dlVars, hashVars, args, log>>

\* Lines 217-229: the next format's url and dest_path are built and
\* download_file is called on them; the destination may be absent or hold
\* anything, the remote content is whatever the server has.
MainFetch ==
    /\ m_pc = "loop"
    /\ queue # <<>>
    /\ m_pc' = "fetching"
    /\ log' = Append(log, <<"fetch", Head(queue)>>)
    /\ remote' \in SeqsUpTo(MainLen)
    /\ chunk_size' = DefaultChunk
    /\ exists' \in BOOLEAN
    /\ file' \in (IF exists' THEN SeqsUpTo(MainLen + 1) ELSE {<<>>})
    /\ exists0' = exists'
    /\ file0' = file'
    /\ FreshCall
    /\ UNCHANGED <<alive, hashVars, args, queue, exit_status>>

\* Lines 229-238 with a plausible slip: sys.exit(1) missing, the loop goes
\* on to the next format after a failed download.
MainAfterFetchNoExit ==
    /\ m_pc = "fetching"
    /\ pc = "returned"
    /\ IF Succeeded
         THEN /\ log' = Append(log, <<"ok", Head(queue)>>)
              /\ IF args.verify
                   THEN m_pc' = "verify" /\ UNCHANGED queue
                   ELSE m_pc' = "loop" /\ queue' = Tail(queue)
         ELSE /\ log' = Append(log, <<"failed", Head(queue)>>)
              /\ m_pc' = "loop"
              /\ queue' = Tail(queue)
    /\ UNCHANGED <<dlVars, hashVars, args, exit_status>>

\* Lines 229-238: download_file returned. After True, calculate_sha256
\* comes next when --verify was given, the next format otherwise; after
\* False, main prints the failure and exits with status 1.
MainAfterFetch ==
    /\ m_pc = "fetching"
    /\ pc = "returned"
    /\ IF Succeeded
         THEN /\ log' = Append(log, <<"ok", Head(queue)>>)
              /\ IF args.verify
                   THEN m_pc' = "verify" /\ UNCHANGED queue
                   ELSE m_pc' = "loop" /\ queue' = Tail(queue)
              /\ UNCHANGED exit_status
         ELSE /\ log' = Append(log, <<"failed", Head(queue)>>)
              /\ m_pc' = "exited"
              /\ exit_status' = 1
              /\ UNCHANGED queue
    /\ UNCHANGED <<dlVars, hashVars, args>>

\* Lines 231-234: calculate_sha256(dest_path) runs and its result is
\* printed; it reads the file and keeps nothing that main uses later.
MainVerify ==
    /\ m_pc = "verify"
    /\ log' = Append(log, <<"sha", Head(queue)>>)
    /\ m_pc' = "loop"
    /\ queue' = Tail(queue)
    /\ UNCHANGED <<dlVars, hashVars, args, exit_status>>

\* Line 229: download_file raised; nothing in main catches the exception,
\* the interpreter prints the traceback and exits with status 1.
MainCrash ==
    /\ m_pc = "fetching"
    /\ pc = "raised"
    /\ log' = Append(log, <<"raised", Head(queue)>>)
    /\ m_pc' = "exited"
    /\ exit_status' = 1
    /\ UNCHANGED <<dlVars, hashVars, args, queue>>

\* Lines 240-259: every format was downloaded; main returns.
MainDone ==
    /\ m_pc = "loop"
    /\ queue = <<>>
    /\ m_pc' = "exited"
    /\ exit_status' = 0
    /\ UNCHANGED <<dlVars, hashVars, args, queue, log>>

\* Lines 167-199: main starts with any arguments argparse accepts; no call
\* of download_file is in progress.
InitMain ==
    /\ m_pc = "start"
    /\ args \in [list : BOOLEAN, all : BOOLEAN,
                 format : {"parquet", "zip", "csv"}, verify : BOOLEAN]
    /\ queue = <<>>
    /\ log = <<>>
    /\ exit_status = -1
    /\ h_pc = "idle" /\ h_chunk = 0 /\ h_pos = 0 /\ h_acc = 0
    /\ digests = <<>>
    /\ retries = 0
    /\ remote = <<>>
    /\ chunk_size = DefaultChunk
    /\ exists = FALSE /\ file = <<>>
    /\ exists0 = FALSE /\ file0 = <<>>
    /\ pc = "idle"
    /\ alive = TRUE
    /\ downloaded_size = 0
    /\ total_size = -1
    /\ range_hdr = -1
    /\ mode = "none"
    /\ status_code = 0
    /\ body = <<>>
    /\ handle = "none"
    /\ open_mode = "none"
    /\ pbar = 0
    /\ written = <<>>
    /\ cut = FALSE
    /\ outcome = "none"
    /\ head_reqs = 0
    /\ get_reqs = 0
    /\ opens = 0

\* main, with every step of the download_file calls it makes.
NextMain ==
    \/ MainStart
    \/ MainFetch
    \/ MainAfterFetch
    \/ MainVerify
    \/ MainCrash
    \/ MainDone
    \/ ProbeOk
    \/ ProbeRaises
    \/ CheckComplete
    \/ GetNetworkError
    \/ GetResponse
    \/ OpenOk
    \/ OpenFails
    \/ WriteChunk
    \/ WriteFails
    \/ StreamError
    \/ Complete
    \/ PrematureEof

SpecMain == InitMain /\ [][NextMain]_vars

IsFetch(e) == e[1] = "fetch"

\* The "fetch" events of the log, in order.
Fetches == SelectSeq(log, IsFetch)

\* C16: main fetches the selected formats one after another in the order of
\* FILES: the fetches made are an initial part of the selection, each after
\* the first directly follows the success (or the checksum) of the one
\* before, and a step of download_file is taken only between a fetch and
\* its end. A fetch that returned False or raised is the last thing main
\* did, and main has then exited with status 1; main exits with status 0
\* only when every selected format was fetched with success (or --list was
\* given, which fetches nothing). calculate_sha256 runs on a file only when
\* --verify was given, directly after that file's fetch returned success,
\* and then it always runs.
C16_MainSequentialStopsAtFailure ==
    /\ Len(Fetches) <= Len(Selected(args))
    /\ \A i \in DOMAIN Fetches : Fetches[i][2] = Selected(args)[i]
    /\ (args.list => log = <<>>)
    /\ (m_pc = "fetching" <=> (log # <<>> /\ log[Len(log)][1] = "fetch"))
    /\ (pc \in {"probe", "check", "request", "open", "stream"} =>
          m_pc = "fetching")
    /\ \A i \in DOMAIN log :
          /\ (log[i][1] = "fetch" /\ i > 1) =>
                /\ log[i - 1][1] = (IF args.verify THEN "sha" ELSE "ok")
                /\ \E j \in 1..(i - 1) :
                      /\ log[j][1] = "ok"
                      /\ log[j][2] = log[i - 1][2]
                      /\ j >= i - 2
          /\ (log[i][1] \in {"ok", "failed", "raised"}) =>
                (i > 1 /\ log[i - 1] = <<"fetch", log[i][2]>>)
          /\ (log[i][1] \in {"failed", "raised"}) =>
                (i = Len(log) /\ m_pc = "exited" /\ exit_status = 1)
          /\ (log[i][1] = "sha") =>
                (args.verify /\ i > 1 /\ log[i - 1] = <<"ok", log[i][2]>>)
          /\ (log[i][1] = "ok" /\ args.verify /\ i = Len(log)) =>
                m_pc = "verify"
    /\ (exit_status = 0 =>
          \/ args.list
          \/ /\ Len(Fetches) = Len(Selected(args))
             /\ \A k \in DOMAIN log : log[k][1] \notin {"failed", "raised"})
    /\ (m_pc = "exited" <=> exit_status # -1)

\* C16's case: with --all and --verify, parquet was fetched and hashed, the
\* fetch of zip failed, and main exited with status 1 before csv.
C16_Witness ==
    /\ args.all /\ args.verify
    /\ log = << <<"fetch", "parquet">>, <<"ok", "parquet">>,
                <<"sha", "parquet">>, <<"fetch", "zip">>,
                <<"failed", "zip">> >>
    /\ exit_status = 1
====
